---- MODULE Spec2Model ----
(***************************************************************************)
(* Model of ofsht's worktree-target resolution (commands/common.rs), the   *)
(* batch remove command (commands/rm.rs), the navigate command             *)
(* (commands/cd.rs), the porcelain parsers and the lexical normaliser      *)
(* (domain/worktree.rs).  Spec runs the commands; SpecParse, SpecPath and  *)
(* SpecRoot call the parsers, the path functions and the worktree-root     *)
(* deriver on enumerated inputs.                                           *)
(*                                                                         *)
(* Strings that are compared or used as paths are modelled as records      *)
(* [abs, comps]: the sequence of their "/"-separated components and        *)
(* whether they start with "/".  "feat" is Rel(<<"feat">>), "/r/wt/feat"   *)
(* is Abs(<<"r","wt","feat">>), "." is Rel(<<".">>).  An Option is a       *)
(* sequence of length 0 (None) or 1 (Some).                                *)
(***************************************************************************)
EXTENDS Integers, Sequences, FiniteSets, TLC

\* ---------------------------------------------------------------- bounds
MaxTargets == 3
MaxWorktrees == 2
MaxLines == 4
MaxComps == 3
MaxPaths == 3

\* ------------------------------------------------------- string helpers
Abs(c) == [abs |-> TRUE, comps |-> c]
Rel(c) == [abs |-> FALSE, comps |-> c]
None == <<>>
Some(x) == <<x>>
EmptyString == Rel(<<>>)

DOT == Rel(<<".">>)
AT == Rel(<<"@">>)

\* ------------------------------------------------------------ filesystem
\* One symbolic link, /lnk -> /r/wt; every other name is a plain directory.
SymlinkFrom == <<"lnk">>
SymlinkTo == <<"r", "wt">>

Parent(p) == IF p = <<>> THEN <<>> ELSE SubSeq(p, 1, Len(p) - 1)

IsPrefix(p, q) == Len(p) <= Len(q) /\ SubSeq(q, 1, Len(p)) = p

\* std::fs::canonicalize on an absolute component list: follows symbolic
\* links, resolves ".." physically, fails (None) when a component is missing.
RECURSIVE RealCanonFrom(_, _, _)
RealCanonFrom(acc, rest, ds) ==
    IF rest = <<>> THEN Some(acc)
    ELSE LET c == Head(rest) IN
         IF c = "." THEN RealCanonFrom(acc, Tail(rest), ds)
         ELSE IF c = ".." THEN RealCanonFrom(Parent(acc), Tail(rest), ds)
         ELSE LET n == Append(acc, c)
                  t == IF n = SymlinkFrom THEN SymlinkTo ELSE n
              IN IF t \in ds THEN RealCanonFrom(t, Tail(rest), ds) ELSE None

RealCanon(p, ds) == RealCanonFrom(<<>>, p, ds)

PathExists(p, ds) == RealCanon(p, ds) # None

\* The loop of canonicalize_allow_missing and of normalize_path_lexically:
\* skip ".", pop on "..", push anything else.  PathBuf::pop on the root (or
\* on an empty buffer) leaves it unchanged.
RECURSIVE LexNormFrom(_, _)
LexNormFrom(acc, rest) ==
    IF rest = <<>> THEN acc
    ELSE LET c == Head(rest) IN
         IF c = "." THEN LexNormFrom(acc, Tail(rest))
         ELSE IF c = ".." THEN LexNormFrom(Parent(acc), Tail(rest))
         ELSE LexNormFrom(Append(acc, c), Tail(rest))

\* Mutant: the ParentDir arm is missing; ".." is pushed like a name.
normalize_path_lexically_NoParentArm(path) ==
    LET NotCurDir(c) == c # "." IN [path EXCEPT !.comps = SelectSeq(@, NotCurDir)]

\* normalize_path_lexically: the buffer starts empty; the root of an absolute
\* path is its first component, so the result is absolute iff the input is.
normalize_path_lexically(path) == [path EXCEPT !.comps = LexNormFrom(<<>>, @)]

\* Where a path really is: made absolute against directory wd, "." and ".."
\* resolved, the symbolic link followed.  Does not depend on which
\* directories exist.
ResolveLink(p) ==
    IF IsPrefix(SymlinkFrom, p)
    THEN SymlinkTo \o SubSeq(p, Len(SymlinkFrom) + 1, Len(p))
    ELSE p

PhysicalPath(path, wd) ==
    ResolveLink(LexNormFrom(<<>>, IF path.abs THEN path.comps ELSE wd \o path.comps))

\* The ancestor walk of canonicalize_allow_missing: cur is the path being
\* examined, tail the components already taken off its end (in path order).
RECURSIVE AncestorWalk(_, _, _, _)
\* Mutant: the tail is appended in the order it was collected (deepest first).
AncestorStep_ReversedTail(canonical_parent, cur, tail, normalized, ds) ==
    IF canonical_parent # None
    THEN canonical_parent[1] \o [i \in DOMAIN tail |-> tail[Len(tail) + 1 - i]]
    ELSE AncestorWalk(Parent(cur), tail, normalized, ds)

AncestorStep(canonical_parent, cur, tail, normalized, ds) ==
    IF canonical_parent # None
    THEN canonical_parent[1] \o tail
    ELSE AncestorWalk(Parent(cur), tail, normalized, ds)

AncestorWalk(cur, tail, normalized, ds) ==
    IF cur = <<>> THEN normalized
    ELSE AncestorStep(RealCanon(Parent(cur), ds), cur, <<cur[Len(cur)]>> \o tail,
                      normalized, ds)

\* canonicalize_allow_missing(path), with the process's current directory
\* and the set of existing directories made explicit.  Result: absolute
\* component list.
\* Mutant: a missing path is returned as normalised, without the ancestor walk.
CanonicalOrWalk_NoWalk(canonical, normalized, ds) ==
    IF canonical # None THEN canonical[1] ELSE normalized

CanonicalOrWalk(canonical, normalized, ds) ==
    IF canonical # None THEN canonical[1]
    ELSE AncestorWalk(normalized, <<>>, normalized, ds)

CanonicalizeNormalized(normalized, ds) ==
    CanonicalOrWalk(RealCanon(normalized, ds), normalized, ds)

canonicalize_allow_missing(path, wd, ds) ==
    CanonicalizeNormalized(
        LexNormFrom(<<>>, IF path.abs THEN path.comps ELSE wd \o path.comps), ds)

\* canonicalize_allow_missing(path) as the process runs it: current_dir is
\* what std::env::current_dir() returns, None when it fails (the directory
\* was deleted).  A relative path is then left relative: nothing relative
\* can be canonicalised or found to exist, the walk runs out of parents and
\* the normalised path is returned.
canonicalize_allow_missing_from(path, current_dir, ds) ==
    IF path.abs THEN Abs(canonicalize_allow_missing(path, <<>>, ds))
    ELSE IF current_dir # None THEN Abs(canonicalize_allow_missing(path, current_dir[1], ds))
    ELSE Rel(LexNormFrom(<<>>, path.comps))

\* ------------------------------------------------------- porcelain text
\* A line is [key, val]: key is the word before the first space ("" for a
\* blank line), val the rest of the line as a string.
Line(k, v) == [key |-> k, val |-> v]
BlankLine == Line("", EmptyString)

\* strip_prefix("refs/heads/").unwrap_or(branch_ref)
strip_refs_heads(ref) ==
    IF ~ref.abs /\ Len(ref.comps) >= 3 /\ ref.comps[1] = "refs" /\ ref.comps[2] = "heads"
    THEN Rel(SubSeq(ref.comps, 3, Len(ref.comps)))
    ELSE ref

\* What `git worktree list --porcelain` prints for one worktree.
RenderBlock(e, ds) ==
    <<Line("worktree", e.path), Line("HEAD", Rel(<<"0123abcd">>))>>
    \o (IF e.branch = None THEN <<Line("detached", EmptyString)>>
        ELSE <<Line("branch", Rel(<<"refs", "heads">> \o e.branch[1].comps))>>)
    \o (IF PathExists(e.path.comps, ds) THEN <<>> ELSE <<Line("prunable", EmptyString)>>)
    \o <<BlankLine>>

RECURSIVE RenderAll(_, _)
RenderAll(es, ds) ==
    IF es = <<>> THEN <<>> ELSE RenderBlock(Head(es), ds) \o RenderAll(Tail(es), ds)

\* parse_all_worktrees: the scan state is the function's local variables.
PawInit == [main_path |-> EmptyString, worktrees |-> <<>>, worktree_index |-> 0,
            current_path |-> None, current_branch |-> None]

PawFlush(st) ==
    IF st.current_path = None THEN st
    ELSE IF st.worktree_index = 1
         THEN [st EXCEPT !.main_path = st.current_path[1], !.current_path = None]
         ELSE [st EXCEPT !.worktrees = Append(@, [path |-> st.current_path[1],
                                                    branch |-> st.current_branch]),
                         !.current_path = None, !.current_branch = None]

PawStep(st, line) ==
    IF line.key = "worktree"
    THEN LET f == PawFlush(st)
         IN [f EXCEPT !.worktree_index = @ + 1, !.current_path = Some(line.val),
                      !.current_branch = None]
    ELSE IF line.key = "branch"
    THEN [st EXCEPT !.current_branch = Some(strip_refs_heads(line.val))]
    ELSE IF line.key = ""
    THEN PawFlush(st)
    ELSE st

RECURSIVE PawScan(_, _)
PawScan(st, lines) ==
    IF lines = <<>> THEN st ELSE PawScan(PawStep(st, Head(lines)), Tail(lines))

parse_all_worktrees(output) ==
    LET st == PawFlush(PawScan(PawInit, output))
    IN [main_path |-> st.main_path, worktrees |-> st.worktrees]

\* find_worktree_by_branch: returns Option<path string>.
RECURSIVE FwbScan(_, _, _, _)
FwbScan(lines, branch_name, current_path, worktree_index) ==
    IF lines = <<>> THEN None
    ELSE LET line == Head(lines) IN
         IF line.key = "worktree"
         THEN FwbScan(Tail(lines), branch_name, Some(line.val), worktree_index + 1)
         ELSE IF line.key = "branch"
         THEN IF worktree_index > 1 /\ strip_refs_heads(line.val) = branch_name
              THEN current_path
              ELSE FwbScan(Tail(lines), branch_name, current_path, worktree_index)
         ELSE IF line.key = ""
         THEN FwbScan(Tail(lines), branch_name, None, worktree_index)
         ELSE FwbScan(Tail(lines), branch_name, current_path, worktree_index)

\* Mutant: the block counter starts at 1, so the main worktree is not skipped.
find_worktree_by_branch_CountFromOne(output, branch_name) ==
    FwbScan(output, branch_name, None, 1)

find_worktree_by_branch(output, branch_name) == FwbScan(output, branch_name, None, 0)

\* ------------------------------------------------- worktree entries (ls)
\* full_hash.chars().take(8): a hash is a string without "/", held as the
\* single component of its record.
HashChars == 8
UnknownHash == Rel(<<"(unknown)">>)

TakeChars(v, n) ==
    IF v.comps = <<>> THEN v
    ELSE [v EXCEPT !.comps = <<SubSeq(@[1], 1, IF Len(@[1]) < n THEN Len(@[1]) ELSE n)>>]

\* active_path.map(|p| p.canonicalize().unwrap_or_else(|_| p.to_path_buf()))
CanonicalActive(active_path, wd, ds) ==
    IF active_path = None THEN None
    ELSE LET p == active_path[1]
             c == RealCanon(IF p.abs THEN p.comps ELSE wd \o p.comps, ds)
         IN Some(IF c # None THEN Abs(c[1]) ELSE p)

is_path_active(worktree_path, canonical_active, wd, ds) ==
    IF canonical_active = None THEN FALSE
    ELSE LET c == RealCanon(IF worktree_path.abs THEN worktree_path.comps
                            ELSE wd \o worktree_path.comps, ds)
         IN IF c # None THEN Abs(c[1]) = canonical_active[1]
            ELSE worktree_path = canonical_active[1]

\* parse_worktree_entries: the scan state is the function's local variables.
PweInit == [entries |-> <<>>, current_path |-> None, current_branch |-> None,
            current_hash |-> None]

\* `if let Some(path) = current_path.take() { ... entries.push(..) }`
PweFlush(st, canonical_active, wd, ds) ==
    IF st.current_path = None THEN st
    ELSE [st EXCEPT
            !.entries = Append(@, [path |-> st.current_path[1],
                                   branch |-> st.current_branch,
                                   hash |-> IF st.current_hash = None THEN UnknownHash
                                            ELSE st.current_hash[1],
                                   is_active |-> is_path_active(st.current_path[1],
                                                                canonical_active, wd, ds)]),
            !.current_path = None, !.current_branch = None, !.current_hash = None]

\* Mutant: a worktree line does not clear the branch and hash read so far.
PweStep_NoReset(st, line, canonical_active, wd, ds) ==
    IF line.key = "worktree"
    THEN [PweFlush(st, canonical_active, wd, ds) EXCEPT !.current_path = Some(line.val)]
    ELSE IF line.key = "HEAD"
    THEN [st EXCEPT !.current_hash = Some(TakeChars(line.val, HashChars))]
    ELSE IF line.key = "branch"
    THEN [st EXCEPT !.current_branch = Some(strip_refs_heads(line.val))]
    ELSE IF line.key = ""
    THEN PweFlush(st, canonical_active, wd, ds)
    ELSE st

\* Mutant: a `detached` line clears the branch.
PweStep_DetachedClearsBranch(st, line, canonical_active, wd, ds) ==
    IF line.key = "worktree"
    THEN [PweFlush(st, canonical_active, wd, ds) EXCEPT
            !.current_path = Some(line.val), !.current_branch = None,
            !.current_hash = None]
    ELSE IF line.key = "HEAD"
    THEN [st EXCEPT !.current_hash = Some(TakeChars(line.val, HashChars))]
    ELSE IF line.key = "branch"
    THEN [st EXCEPT !.current_branch = Some(strip_refs_heads(line.val))]
    ELSE IF line.key = "detached"
    THEN [st EXCEPT !.current_branch = None]
    ELSE IF line.key = ""
    THEN PweFlush(st, canonical_active, wd, ds)
    ELSE st

\* One iteration of `for line in output.lines()`.
PweStep(st, line, canonical_active, wd, ds) ==
    IF line.key = "worktree"
    THEN [PweFlush(st, canonical_active, wd, ds) EXCEPT
            !.current_path = Some(line.val), !.current_branch = None,
            !.current_hash = None]
    ELSE IF line.key = "HEAD"
    THEN [st EXCEPT !.current_hash = Some(TakeChars(line.val, HashChars))]
    ELSE IF line.key = "branch"
    THEN [st EXCEPT !.current_branch = Some(strip_refs_heads(line.val))]
    ELSE IF line.key = ""
    THEN PweFlush(st, canonical_active, wd, ds)
    ELSE st

RECURSIVE PweScan(_, _, _, _, _)
PweScan(st, lines, canonical_active, wd, ds) ==
    IF lines = <<>> THEN st
    ELSE PweScan(PweStep(st, Head(lines), canonical_active, wd, ds), Tail(lines),
                 canonical_active, wd, ds)

PweRun(output, canonical_active, wd, ds) ==
    PweFlush(PweScan(PweInit, output, canonical_active, wd, ds),
             canonical_active, wd, ds).entries

\* Mutant: the block still open at the end of the input is dropped.
parse_worktree_entries_NoLastFlush(output, active_path, wd, ds) ==
    PweScan(PweInit, output, CanonicalActive(active_path, wd, ds), wd, ds).entries

parse_worktree_entries(output, active_path, wd, ds) ==
    PweRun(output, CanonicalActive(active_path, wd, ds), wd, ds)

\* parse_simple_worktree_entries.
PseInit == [entries |-> <<>>, current_path |-> None, current_branch |-> None]

PseFlush(st) ==
    IF st.current_path = None THEN st
    ELSE [st EXCEPT !.entries = Append(@, [path |-> st.current_path[1],
                                            branch |-> st.current_branch]),
                    !.current_path = None, !.current_branch = None]

\* Mutant: the branch ref is stored as written, with its refs/heads/ prefix.
PseStep_RawRef(st, line) ==
    IF line.key = "worktree"
    THEN [PseFlush(st) EXCEPT !.current_path = Some(line.val), !.current_branch = None]
    ELSE IF line.key = "branch"
    THEN [st EXCEPT !.current_branch = Some(line.val)]
    ELSE IF line.key = ""
    THEN PseFlush(st)
    ELSE st

PseStep(st, line) ==
    IF line.key = "worktree"
    THEN [PseFlush(st) EXCEPT !.current_path = Some(line.val), !.current_branch = None]
    ELSE IF line.key = "branch"
    THEN [st EXCEPT !.current_branch = Some(strip_refs_heads(line.val))]
    ELSE IF line.key = ""
    THEN PseFlush(st)
    ELSE st

RECURSIVE PseScan(_, _)
PseScan(st, lines) ==
    IF lines = <<>> THEN st ELSE PseScan(PseStep(st, Head(lines)), Tail(lines))

parse_simple_worktree_entries(output) == PseFlush(PseScan(PseInit, output)).entries

\* ------------------------------------------- branch names (completion)
PwlInit == [branches |-> <<>>, worktree_index |-> 0, current_branch |-> None]

\* `if let Some(branch) = current_branch.take()`: the branch is pushed when
\* worktree_index is above least.
PwlTake(st, least) ==
    IF st.current_branch = None THEN st
    ELSE [st EXCEPT !.branches = IF st.worktree_index > least
                                 THEN Append(@, st.current_branch[1]) ELSE @,
                    !.current_branch = None]

PwlStep(st, line) ==
    IF line.key = "worktree"
    THEN [PwlTake(st, 0) EXCEPT !.worktree_index = @ + 1]
    ELSE IF line.key = "branch"
    THEN [st EXCEPT !.current_branch = Some(strip_refs_heads(line.val))]
    ELSE IF line.key = ""
    THEN PwlTake(st, 1)
    ELSE st

RECURSIVE PwlScan(_, _)
PwlScan(st, lines) ==
    IF lines = <<>> THEN st ELSE PwlScan(PwlStep(st, Head(lines)), Tail(lines))

parse_worktree_list(output) == PwlTake(PwlScan(PwlInit, output), 1).branches

\* ------------------------------------------------------ target resolver
MsgMain == "Cannot remove main worktree"
MsgNotFound == "Worktree not found"
MsgNotRepo == "Not in a git repository"

NoErr == [msg |-> "", arg |-> EmptyString]

ErrRes(m, a) ==
    [ok |-> FALSE, err |-> [msg |-> m, arg |-> a], canonical_path |-> <<>>,
     worktree_path |-> EmptyString, branch_name |-> None, is_current |-> FALSE]

OkRes(cp, wp, bn, cur) ==
    [ok |-> TRUE, err |-> NoErr, canonical_path |-> cp, worktree_path |-> wp,
     branch_name |-> bn, is_current |-> cur]

\* The linear scans of resolve_worktree_target over the non-main entries:
\* index of the first entry whose canonical path equals cp, 0 when none.
RECURSIVE FirstPathMatch(_, _, _, _, _)
FirstPathMatch(worktrees, i, cp, wd, ds) ==
    IF i > Len(worktrees) THEN 0
    ELSE IF canonicalize_allow_missing(worktrees[i].path, wd, ds) = cp THEN i
    ELSE FirstPathMatch(worktrees, i + 1, cp, wd, ds)

\* The "." arm: current_path is the trimmed output of
\* `git rev-parse --show-toplevel`; k is the result of the scan for the
\* entry whose canonical path equals canonical_current.
\* Mutant: the comparison with the main worktree's path is missing.
CurrentArm_NoMainCheck(current_path, canonical_current, canonical_main, worktrees, k) ==
    OkRes(canonical_current, current_path,
          IF k = 0 THEN None ELSE worktrees[k].branch, TRUE)

CurrentArm(current_path, canonical_current, canonical_main, worktrees, k) ==
    IF canonical_current = canonical_main
    THEN ErrRes(MsgMain, EmptyString)
    ELSE OkRes(canonical_current, current_path,
               IF k = 0 THEN None ELSE worktrees[k].branch, TRUE)

CurrentScan(current_path, canonical_current, parsed, wd, ds) ==
    CurrentArm(current_path, canonical_current,
               canonicalize_allow_missing(parsed.main_path, wd, ds), parsed.worktrees,
               FirstPathMatch(parsed.worktrees, 1, canonical_current, wd, ds))

\* Mutant: the process's current directory is used instead of git's top level.
ResolveCurrent_RawCwd(current_path, parsed, wd, ds) ==
    CurrentScan(Abs(wd), canonicalize_allow_missing(Abs(wd), wd, ds), parsed, wd, ds)

ResolveCurrent(current_path, parsed, wd, ds) ==
    CurrentScan(current_path, canonicalize_allow_missing(current_path, wd, ds), parsed, wd, ds)

\* Mutant: a branch match on the worktree the process is in counts as current.
ResolveByBranch_CurrentFlag(name, path, wd, ds) ==
    OkRes(canonicalize_allow_missing(path, wd, ds), path, Some(name),
          IsPrefix(canonicalize_allow_missing(path, wd, ds), wd))

\* The arm taken when find_worktree_by_branch found a path.
ResolveByBranch(name, path, wd, ds) ==
    OkRes(canonicalize_allow_missing(path, wd, ds), path, Some(name), FALSE)

\* Mutant: the comparison with the main worktree's path is missing.
PathArm_NoMainCheck(name, canonical_input, canonical_main, worktrees, k) ==
    IF k # 0
    THEN OkRes(canonical_input, worktrees[k].path, worktrees[k].branch, FALSE)
    ELSE ErrRes(MsgNotFound, name)

\* Mutant: the error echoes the canonicalised path instead of the token.
PathArm_EchoCanonical(name, canonical_input, canonical_main, worktrees, k) ==
    IF canonical_input = canonical_main
    THEN ErrRes(MsgMain, EmptyString)
    ELSE IF k # 0
    THEN OkRes(canonical_input, worktrees[k].path, worktrees[k].branch, FALSE)
    ELSE ErrRes(MsgNotFound, Abs(canonical_input))

\* The arm that treats the token as a path; k is the result of the scan for
\* the entry whose canonical path equals canonical_input.
PathArm(name, canonical_input, canonical_main, worktrees, k) ==
    IF canonical_input = canonical_main
    THEN ErrRes(MsgMain, EmptyString)
    ELSE IF k # 0
    THEN OkRes(canonical_input, worktrees[k].path, worktrees[k].branch, FALSE)
    ELSE ErrRes(MsgNotFound, name)

PathScan(name, canonical_input, parsed, wd, ds) ==
    PathArm(name, canonical_input,
            canonicalize_allow_missing(parsed.main_path, wd, ds), parsed.worktrees,
            FirstPathMatch(parsed.worktrees, 1, canonical_input, wd, ds))

ResolveByPath(name, parsed, wd, ds) ==
    PathScan(name, canonicalize_allow_missing(name, wd, ds), parsed, wd, ds)

\* Mutant: the path interpretation is tried before the branch lookup.
ResolveArms_PathFirst(name, parsed, branch_match, wd, toplevel, ds) ==
    IF name = DOT /\ toplevel = None
    THEN ErrRes(MsgNotRepo, EmptyString)
    ELSE IF name = AT
    THEN ErrRes(MsgMain, EmptyString)
    ELSE IF name = DOT
    THEN ResolveCurrent(toplevel[1], parsed, wd, ds)
    ELSE IF ResolveByPath(name, parsed, wd, ds).err.msg # MsgNotFound \/ branch_match = None
    THEN ResolveByPath(name, parsed, wd, ds)
    ELSE ResolveByBranch(name, branch_match[1], wd, ds)

\* The arms of resolve_worktree_target once the porcelain text is parsed and
\* the branch lookup is done.
ResolveArms(name, parsed, branch_match, wd, toplevel, ds) ==
    IF name = DOT /\ toplevel = None
    THEN ErrRes(MsgNotRepo, EmptyString)
    ELSE IF name = AT
    THEN ErrRes(MsgMain, EmptyString)
    ELSE IF name = DOT
    THEN ResolveCurrent(toplevel[1], parsed, wd, ds)
    ELSE IF branch_match # None
    THEN ResolveByBranch(name, branch_match[1], wd, ds)
    ELSE ResolveByPath(name, parsed, wd, ds)

\* resolve_worktree_target(name, list_stdout, _): toplevel is what
\* `git rev-parse --show-toplevel` answers in the current directory (None
\* when it exits unsuccessfully); it is consulted for "." only.
resolve_worktree_target(name, list_stdout, wd, toplevel, ds) ==
    ResolveArms(name, parse_all_worktrees(list_stdout),
                IF name # DOT /\ name # AT
                THEN find_worktree_by_branch(list_stdout, name) ELSE None,
                wd, toplevel, ds)

\* ------------------------------------------------------------- display
HomeDir == <<"r">>

\* display_path: lexical normalisation, then "~" for the home directory.
display_path(path) ==
    LET normalized == LexNormFrom(<<>>, path.comps)
    IN IF path.abs /\ IsPrefix(HomeDir, normalized)
       THEN Rel(<<"~">> \o SubSeq(normalized, Len(HomeDir) + 1, Len(normalized)))
       ELSE [abs |-> path.abs, comps |-> normalized]

\* ---------------------------------------------------------- worktree root
\* Path::components(): the root directory is a component of its own, "/".
RootDir == "/"

Components(path) == (IF path.abs THEN <<RootDir>> ELSE <<>>) \o path.comps

\* A PathBuf built by pushing components one after the other.
FromComponents(c) ==
    IF c # <<>> /\ c[1] = RootDir THEN Abs(Tail(c)) ELSE Rel(c)

\* Path::parent(): None for "/" and for the empty path.
PathParent(path) ==
    IF path.comps = <<>> THEN None
    ELSE Some([path EXCEPT !.comps = Parent(@)])

\* The zip loop: how many leading components of a and b are equal.
RECURSIVE CurrentDepth(_, _)
CurrentDepth(a, b) ==
    IF a = <<>> \/ b = <<>> \/ Head(a) # Head(b) THEN 0
    ELSE 1 + CurrentDepth(Tail(a), Tail(b))

Min(a, b) == IF a <= b THEN a ELSE b

RECURSIVE CommonDepth_LastWins(_, _, _)
CommonDepth_LastWins(first_components, rest, common_depth) ==
    IF rest = <<>> THEN common_depth
    ELSE CommonDepth_LastWins(first_components, Tail(rest),
             CurrentDepth(first_components, Components(Head(rest))))

\* The loop over worktree_paths[1..], narrowing common_depth.
RECURSIVE CommonDepth(_, _, _)
CommonDepth(first_components, rest, common_depth) ==
    IF rest = <<>> THEN common_depth
    ELSE CommonDepth(first_components, Tail(rest),
             Min(common_depth,
                 CurrentDepth(first_components, Components(Head(rest)))))

calculate_worktree_root_from_paths(worktree_paths) ==
    IF worktree_paths = <<>> THEN None
    ELSE IF Len(worktree_paths) = 1 THEN PathParent(worktree_paths[1])
    ELSE LET first_components == Components(worktree_paths[1])
             common_depth == CommonDepth(first_components, Tail(worktree_paths),
                                         Len(first_components))
         IN IF common_depth = 0 THEN None
            ELSE Some(FromComponents(SubSeq(first_components, 1, common_depth)))

calculate_relative_path_StartsWith(worktree_path, worktree_root) ==
    LET w == Components(worktree_path)
        r == Components(worktree_root)
        n == Len(r)
        StartsWith(s, t) == Len(t) <= Len(s) /\ SubSeq(s, 1, Len(t)) = t
    IN IF n = 0 THEN Some(FromComponents(w))
       ELSE IF /\ n <= Len(w)
               /\ SubSeq(w, 1, n - 1) = SubSeq(r, 1, n - 1)
               /\ StartsWith(w[n], r[n])
       THEN Some(Rel(SubSeq(w, n + 1, Len(w))))
       ELSE None

\* Path::strip_prefix compares whole components; the rest is displayed.
calculate_relative_path(worktree_path, worktree_root) ==
    LET w == Components(worktree_path)
        r == Components(worktree_root)
    IN IF IsPrefix(r, w)
       THEN Some(FromComponents(SubSeq(w, Len(r) + 1, Len(w))))
       ELSE None

\* The relative-path column of format_worktree_table and the relative
\* candidates of list_git_worktrees, for the paths of the worktrees after
\* the first: one Option per worktree.
RelativePaths(non_main_paths) ==
    LET worktree_root == calculate_worktree_root_from_paths(non_main_paths)
    IN [ i \in 1..Len(non_main_paths) |->
           IF worktree_root = None THEN None
           ELSE calculate_relative_path(non_main_paths[i], worktree_root[1]) ]

\* --------------------------------------------------------- navigate (cd)
\* The line scan of cmd_goto for a token other than "@".
RECURSIVE GotoScan(_, _, _)
GotoScan(lines, name, current_path) ==
    IF lines = <<>> THEN None
    ELSE LET line == Head(lines) IN
         IF line.key = "worktree"
         THEN GotoScan(Tail(lines), name, Some(line.val))
         ELSE IF line.key = "branch"
         THEN IF strip_refs_heads(line.val) = name /\ current_path # None
              THEN current_path
              ELSE GotoScan(Tail(lines), name, current_path)
         ELSE IF line.key = ""
         THEN GotoScan(Tail(lines), name, None)
         ELSE GotoScan(Tail(lines), name, current_path)

\* cmd_goto(Some(name)): the path it navigates to (None when it fails).
GotoTarget(name, output) ==
    IF name = AT THEN Some(parse_all_worktrees(output).main_path)
    ELSE GotoScan(output, name, None)

\* ------------------------------------------------------------- list (ls)
\* The line cmd_list prints for the entry at index in pipe mode without
\* --show-path.
ListLine(entry, index) ==
    IF index = 1 THEN AT
    ELSE IF entry.branch # None THEN entry.branch[1]
    ELSE display_path(entry.path)

ListLines(output) ==
    LET es == parse_simple_worktree_entries(output)
    IN [ i \in 1..Len(es) |-> ListLine(es[i], i) ]

\* ------------------------------------------------------- batch remove (rm)
PlanEntry(r) ==
    [canonical_path |-> r.canonical_path, worktree_path |-> r.worktree_path,
     branch_name |-> r.branch_name]

Retain(q, cp) ==
    LET Keep(e) == e.canonical_path # cp IN SelectSeq(q, Keep)

\* Mutant: the current worktree's path is not recorded in seen_paths.
RmPlanStep_NoSeenInsert(plan, r) ==
    IF r.is_current
    THEN IF r.canonical_path \in plan.seen_paths
         THEN [plan EXCEPT !.non_current_removals = Retain(@, r.canonical_path),
                           !.warnings = @ + 1,
                           !.current_removal = Some(PlanEntry(r))]
         ELSE [plan EXCEPT !.current_removal = Some(PlanEntry(r))]
    ELSE IF r.canonical_path \in plan.seen_paths
         THEN [plan EXCEPT !.warnings = @ + 1]
         ELSE [plan EXCEPT !.seen_paths = @ \cup {r.canonical_path},
                           !.non_current_removals = Append(@, PlanEntry(r))]

\* Mutant: "." takes the current slot but the entry queued earlier stays.
RmPlanStep_NoRetain(plan, r) ==
    IF r.is_current
    THEN IF r.canonical_path \in plan.seen_paths
         THEN [plan EXCEPT !.warnings = @ + 1,
                           !.current_removal = Some(PlanEntry(r))]
         ELSE [plan EXCEPT !.seen_paths = @ \cup {r.canonical_path},
                           !.current_removal = Some(PlanEntry(r))]
    ELSE IF r.canonical_path \in plan.seen_paths
         THEN [plan EXCEPT !.warnings = @ + 1]
         ELSE [plan EXCEPT !.seen_paths = @ \cup {r.canonical_path},
                           !.non_current_removals = Append(@, PlanEntry(r))]

\* Mutant: a new non-current target is put at the front of the queue.
RmPlanStep_PushFront(plan, r) ==
    IF r.is_current
    THEN IF r.canonical_path \in plan.seen_paths
         THEN [plan EXCEPT !.non_current_removals = Retain(@, r.canonical_path),
                           !.warnings = @ + 1,
                           !.current_removal = Some(PlanEntry(r))]
         ELSE [plan EXCEPT !.seen_paths = @ \cup {r.canonical_path},
                           !.current_removal = Some(PlanEntry(r))]
    ELSE IF r.canonical_path \in plan.seen_paths
         THEN [plan EXCEPT !.warnings = @ + 1]
         ELSE [plan EXCEPT !.seen_paths = @ \cup {r.canonical_path},
                           !.non_current_removals = <<PlanEntry(r)>> \o @]

\* Mutant: a non-current target already seen is warned about and queued again.
RmPlanStep_QueueSeen(plan, r) ==
    IF r.is_current
    THEN IF r.canonical_path \in plan.seen_paths
         THEN [plan EXCEPT !.non_current_removals = Retain(@, r.canonical_path),
                           !.warnings = @ + 1,
                           !.current_removal = Some(PlanEntry(r))]
         ELSE [plan EXCEPT !.seen_paths = @ \cup {r.canonical_path},
                           !.current_removal = Some(PlanEntry(r))]
    ELSE IF r.canonical_path \in plan.seen_paths
         THEN [plan EXCEPT !.warnings = @ + 1,
                           !.non_current_removals = Append(@, PlanEntry(r))]
         ELSE [plan EXCEPT !.seen_paths = @ \cup {r.canonical_path},
                           !.non_current_removals = Append(@, PlanEntry(r))]

\* One iteration of the resolution loop of cmd_rm_many for a token that
\* resolved to r.  plan holds the loop's local variables and the number of
\* duplicate warnings written so far.
RmPlanStep(plan, r) ==
    IF r.is_current
    THEN IF r.canonical_path \in plan.seen_paths
         THEN [plan EXCEPT !.non_current_removals = Retain(@, r.canonical_path),
                           !.warnings = @ + 1,
                           !.current_removal = Some(PlanEntry(r))]
         ELSE [plan EXCEPT !.seen_paths = @ \cup {r.canonical_path},
                           !.current_removal = Some(PlanEntry(r))]
    ELSE IF r.canonical_path \in plan.seen_paths
         THEN [plan EXCEPT !.warnings = @ + 1]
         ELSE [plan EXCEPT !.seen_paths = @ \cup {r.canonical_path},
                           !.non_current_removals = Append(@, PlanEntry(r))]

\* Mutant: the error is recorded but the queued removals are still run.
PcAfterResolveErr_RunQueue == "remove"

\* Where cmd_rm_many goes when a token fails to resolve: Err(e) => return.
PcAfterResolveErr == "done"

LogEntry(op, t, ok) == [op |-> op, target |-> t, ok |-> ok]

\* Mutant: the status of git branch -D is checked like the one of git
\* worktree remove.
remove_worktree_internal_BranchChecked(e, hooksCfg, hookOk, removeOk, branchOk, ds) ==
    LET runHooks == PathExists(e.worktree_path.comps, ds) /\ hooksCfg
        hookLog == IF runHooks THEN <<LogEntry("hook", e.worktree_path, hookOk)>> ELSE <<>>
        removeLog == <<LogEntry("remove", e.worktree_path, removeOk)>>
        branchLog == IF e.branch_name = None THEN <<>>
                     ELSE <<LogEntry("branch", e.branch_name[1], branchOk)>>
    IN IF runHooks /\ ~hookOk
       THEN [ok |-> FALSE, steps |-> hookLog, msg |-> "delete hook failed"]
       ELSE IF ~removeOk
       THEN [ok |-> FALSE, steps |-> hookLog \o removeLog, msg |-> "git worktree remove failed"]
       ELSE IF e.branch_name # None /\ ~branchOk
       THEN [ok |-> FALSE, steps |-> hookLog \o removeLog \o branchLog,
             msg |-> "git branch -D failed"]
       ELSE [ok |-> TRUE, steps |-> hookLog \o removeLog \o branchLog, msg |-> ""]

\* remove_worktree_internal: the steps it performs, given the outcome of each
\* subprocess, and whether it returns Ok.
remove_worktree_internal(e, hooksCfg, hookOk, removeOk, branchOk, ds) ==
    LET runHooks == PathExists(e.worktree_path.comps, ds) /\ hooksCfg
        hookLog == IF runHooks THEN <<LogEntry("hook", e.worktree_path, hookOk)>> ELSE <<>>
        removeLog == <<LogEntry("remove", e.worktree_path, removeOk)>>
        branchLog == IF e.branch_name = None THEN <<>>
                     ELSE <<LogEntry("branch", e.branch_name[1], branchOk)>>
    IN IF runHooks /\ ~hookOk
       THEN [ok |-> FALSE, steps |-> hookLog, msg |-> "delete hook failed"]
       ELSE IF ~removeOk
       THEN [ok |-> FALSE, steps |-> hookLog \o removeLog, msg |-> "git worktree remove failed"]
       ELSE [ok |-> TRUE, steps |-> hookLog \o removeLog \o branchLog, msg |-> ""]

\* ------------------------------------------------------------ environment
\* The repository the tool runs in: main worktree /r/main, linked worktrees
\* under /r/wt (also reachable as /lnk) or nested inside the main worktree.
MainPath == Abs(<<"r", "main">>)
GitDir == <<"r", "main", ".git">>
BaseDirs == {<<>>, <<"r">>, <<"r", "main">>, GitDir, <<"r", "wt">>}
FeatDir == <<"r", "wt", "feat">>
SubDir == <<"r", "wt", "feat", "sub">>

Entry(p, b) == [path |-> p, branch |-> b]

CandidateEntries ==
    { Entry(Abs(<<"r", "wt", "feat">>), Some(Rel(<<"feat">>))),
      Entry(Abs(<<"r", "wt", "fix">>), Some(Rel(<<"fix">>))),
      Entry(Abs(<<"lnk", "fix">>), None),
      Entry(Abs(<<"r", "main", "fix">>), Some(Rel(<<"feat">>))) }

MainEntry == Entry(MainPath, Some(Rel(<<"main">>)))

Tokens ==
    { DOT, AT, Rel(<<"feat">>), Rel(<<"fix">>), Rel(<<"main">>), Rel(<<"nope">>),
      Abs(<<"r", "wt", "feat">>), Abs(<<"lnk", "fix">>), Abs(<<"r", "main">>),
      Rel(<<"..">>), Rel(<<"..", "wt", "fix">>) }

\* The directory a registered worktree lives in (its physical path).
EntryDir(e) == PhysicalPath(e.path, <<>>)

WorktreeSeqs ==
    { s \in UNION { [1..n -> CandidateEntries] : n \in 0..MaxWorktrees } :
        \A i, j \in DOMAIN s : i # j => EntryDir(s[i]) # EntryDir(s[j]) }

DirsOf(wts, missing) ==
    LET wd == { EntryDir(wts[i]) : i \in DOMAIN wts } \ missing
    IN BaseDirs \cup wd \cup (IF FeatDir \in wd THEN {SubDir} ELSE {})

\* `git rev-parse --show-toplevel` run in directory wd: the innermost
\* worktree containing wd; unsuccessful inside the git directory.
TopLevel(wd, gw) ==
    LET cands == { EntryDir(gw[i]) : i \in DOMAIN gw }
        mine == { c \in cands : IsPrefix(c, wd) }
    IN IF IsPrefix(GitDir, wd) \/ mine = {} THEN None
       ELSE Some(Abs(CHOOSE c \in mine : \A d \in mine : Len(d) <= Len(c)))

\* ------------------------------------------------------------------ state
VARIABLES
    gitWorktrees,          \* git's registered worktrees, main first
    dirs,                  \* directories that exist on disk
    cwd,                   \* the process's current directory
    hooks,                 \* whether a delete hook is configured
    cmd, pc,               \* the subcommand running and its position
    list_stdout,           \* the porcelain snapshot the command read
    idx,                   \* number of tokens of the batch processed
    target, res,           \* the last token and what it resolved to
    non_current_removals, current_removal, seen_paths,
    warnings,              \* duplicate warnings written to stderr
    resolved,              \* canonical paths of the tokens resolved so far
    rmIdx,                 \* position in non_current_removals while removing
    log,                   \* subprocess steps performed by the removals
    stdout,                \* lines written to standard output
    result,                \* how the command returned
    first_seen,            \* canonical paths resolved so far, in input order
    text, active,          \* arguments of a parser call: the lines, active_path
    entries,               \* what parse_worktree_entries returned for them
    simple,                \* what parse_simple_worktree_entries returned
    branches,              \* what parse_worktree_list returned
    arg,                   \* argument of a path-function call
    call,                  \* the path function called and its environment
    ret                    \* what it returned

cmdVars == <<gitWorktrees, dirs, cwd, hooks, cmd, pc, list_stdout, idx, target, res,
             non_current_removals, current_removal, seen_paths, warnings, resolved,
             rmIdx, log, stdout, result, first_seen>>
parseVars == <<text, active, entries, simple, branches>>
pathVars == <<arg, call, ret>>
vars == <<cmdVars, parseVars, pathVars>>

envVars == <<gitWorktrees, dirs, cwd, hooks>>
planVars == <<non_current_removals, current_removal, seen_paths, warnings, resolved,
              first_seen>>

Running == [status |-> "running", err |-> NoErr]
RetOk == [status |-> "ok", err |-> NoErr]
RetErr(e) == [status |-> "err", err |-> e]

NoCall == [fn |-> "none", current_dir |-> None, ds |-> {}]

\* No parser call and no path-function call is in progress.
ParseIdle ==
    text = <<>> /\ active = None /\ entries = None /\ simple = None /\ branches = None
PathIdle == arg = EmptyString /\ call = NoCall /\ ret = None

\* No subcommand has started.
CmdIdle ==
    /\ hooks = FALSE
    /\ cmd = "none"
    /\ pc = "start"
    /\ list_stdout = <<>>
    /\ idx = 0
    /\ target = None
    /\ res = None
    /\ non_current_removals = <<>>
    /\ current_removal = None
    /\ seen_paths = {}
    /\ warnings = 0
    /\ resolved = {}
    /\ first_seen = <<>>
    /\ rmIdx = 1
    /\ log = <<>>
    /\ stdout = <<>>
    /\ result = Running

Init ==
    /\ \E wts \in WorktreeSeqs :
         \E missing \in { x \in SUBSET { EntryDir(wts[i]) : i \in DOMAIN wts } :
                            Cardinality(x) <= 1 } :
            /\ gitWorktrees = <<MainEntry>> \o wts
            /\ dirs = DirsOf(wts, missing)
    /\ cwd \in { d \in dirs : TopLevel(d, gitWorktrees) # None \/ d = GitDir }
    /\ CmdIdle
    /\ ParseIdle
    /\ PathIdle

\* ---------------------------------------------------------------- actions
\* cmd_rm_many up to the resolution loop: load the configuration and read
\* the snapshot once.
RmStart ==
    /\ pc = "start"
    /\ cmd' = "rm"
    /\ pc' = "resolve"
    /\ list_stdout' = RenderAll(gitWorktrees, dirs)
    /\ UNCHANGED <<envVars, idx, target, res, planVars, rmIdx, log, stdout, result>>
    /\ UNCHANGED <<parseVars, pathVars>>

\* One iteration of `for target in &targets`.
RmResolve(t) ==
    /\ pc = "resolve"
    /\ idx < MaxTargets
    /\ \E r \in {resolve_worktree_target(t, list_stdout, cwd, TopLevel(cwd, gitWorktrees), dirs)} :
       LET plan == [non_current_removals |-> non_current_removals,
                    current_removal |-> current_removal,
                    seen_paths |-> seen_paths, warnings |-> warnings]
           plan2 == IF r.ok THEN RmPlanStep(plan, r) ELSE plan
       IN /\ target' = Some(t)
          /\ res' = Some(r)
          /\ idx' = idx + 1
          /\ \E p \in {plan2} :
                /\ non_current_removals' = p.non_current_removals
                /\ current_removal' = p.current_removal
                /\ seen_paths' = p.seen_paths
                /\ warnings' = p.warnings
          /\ resolved' = IF r.ok THEN resolved \cup {r.canonical_path} ELSE resolved
          /\ first_seen' = IF r.ok /\ r.canonical_path \notin resolved
                           THEN Append(first_seen, r.canonical_path) ELSE first_seen
          /\ pc' = IF r.ok THEN "resolve" ELSE PcAfterResolveErr
          /\ result' = IF r.ok THEN result ELSE RetErr(r.err)
    /\ UNCHANGED <<envVars, cmd, list_stdout, rmIdx, log, stdout>>
    /\ UNCHANGED <<parseVars, pathVars>>

\* The token list is exhausted: the loop variable goes out of scope and the
\* removals start.  The configuration loaded at the start is first looked at
\* by the removals (its delete hooks); what it holds is fixed here.
RmResolved ==
    /\ pc = "resolve"
    /\ idx >= 1
    /\ pc' = "remove"
    /\ target' = None
    /\ res' = None
    /\ hooks' \in BOOLEAN
    /\ UNCHANGED <<gitWorktrees, dirs, cwd, cmd, list_stdout, idx, planVars, rmIdx, log,
                   stdout, result>>
    /\ UNCHANGED <<parseVars, pathVars>>

\* Whether `git worktree remove <path>` can succeed: the path is a linked
\* worktree git still knows.
Registered(e, gw) ==
    \E i \in 2..Len(gw) : EntryDir(gw[i]) = PhysicalPath(e.worktree_path, MainPath.comps)

Unregister(gw, d) ==
    LET Keep(x) == x.path = MainPath \/ EntryDir(x) # d IN SelectSeq(gw, Keep)

\* The effect on git and on the disk of one call of remove_worktree_internal
\* that performed the steps out.steps for the worktree in directory d.
Removal(out, d) ==
    LET removed == \E k \in DOMAIN out.steps : out.steps[k].op = "remove" /\ out.steps[k].ok
    IN /\ log' = log \o out.steps
       /\ gitWorktrees' = IF removed THEN Unregister(gitWorktrees, d) ELSE gitWorktrees
       /\ dirs' = IF removed THEN { x \in dirs : ~IsPrefix(d, x) } ELSE dirs
       /\ UNCHANGED <<cwd, hooks>>

\* The outcomes one call of remove_worktree_internal can have.
RemovalOutcomes(e) ==
    { remove_worktree_internal(e, hooks, hookOk, removeOk, branchOk, dirs) :
        hookOk \in BOOLEAN, branchOk \in BOOLEAN,
        removeOk \in (IF Registered(e, gitWorktrees) THEN BOOLEAN ELSE {FALSE}) }

\* Mutant: a queued target is removed as soon as it is queued, while later
\* tokens are still being resolved.
RmRemoveNext_Eager ==
    /\ pc \in {"resolve", "remove"}
    /\ rmIdx <= Len(non_current_removals)
    /\ \E e \in {non_current_removals[rmIdx]} :
       \E out \in RemovalOutcomes(e) :
          /\ Removal(out, PhysicalPath(e.worktree_path, MainPath.comps))
          /\ IF out.ok
             THEN /\ rmIdx' = rmIdx + 1
                  /\ UNCHANGED <<pc, result>>
             ELSE /\ pc' = "done"
                  /\ result' = RetErr([msg |-> out.msg, arg |-> EmptyString])
                  /\ UNCHANGED rmIdx
    /\ UNCHANGED <<cmd, list_stdout, idx, target, res, planVars, stdout>>
    /\ UNCHANGED <<parseVars, pathVars>>

\* Mutant: a removal that failed is logged and the loop goes on.
RmRemoveNext_KeepGoing ==
    /\ pc = "remove"
    /\ rmIdx <= Len(non_current_removals)
    /\ \E e \in {non_current_removals[rmIdx]} :
       \E out \in RemovalOutcomes(e) :
          /\ Removal(out, PhysicalPath(e.worktree_path, MainPath.comps))
          /\ rmIdx' = rmIdx + 1
          /\ UNCHANGED <<pc, result>>
    /\ UNCHANGED <<cmd, list_stdout, idx, target, res, planVars, stdout>>
    /\ UNCHANGED <<parseVars, pathVars>>

\* One iteration of `for ... in non_current_removals`.
RmRemoveNext ==
    /\ pc = "remove"
    /\ rmIdx <= Len(non_current_removals)
    /\ \E e \in {non_current_removals[rmIdx]} :
       \E out \in RemovalOutcomes(e) :
          /\ Removal(out, PhysicalPath(e.worktree_path, MainPath.comps))
          /\ IF out.ok
             THEN /\ rmIdx' = rmIdx + 1
                  /\ UNCHANGED <<pc, result>>
             ELSE /\ pc' = "done"
                  /\ result' = RetErr([msg |-> out.msg, arg |-> EmptyString])
                  /\ UNCHANGED rmIdx
    /\ UNCHANGED <<cmd, list_stdout, idx, target, res, planVars, stdout>>
    /\ UNCHANGED <<parseVars, pathVars>>

\* `if let Some(..) = current_removal`: remove the current worktree, then
\* print the main worktree's path.
RmRemoveCurrent ==
    /\ pc = "remove"
    /\ rmIdx > Len(non_current_removals)
    /\ current_removal # None
    /\ \E e \in {current_removal[1]} :
       \E out \in RemovalOutcomes(e) :
          /\ Removal(out, PhysicalPath(e.worktree_path, MainPath.comps))
          /\ IF out.ok
             THEN /\ stdout' = Append(stdout, parse_all_worktrees(list_stdout).main_path)
                  /\ result' = RetOk
             ELSE /\ result' = RetErr([msg |-> out.msg, arg |-> EmptyString])
                  /\ UNCHANGED stdout
    /\ pc' = "done"
    /\ UNCHANGED <<cmd, list_stdout, idx, target, res, planVars, rmIdx>>
    /\ UNCHANGED <<parseVars, pathVars>>

\* Mutant: the main worktree's path is printed whenever the batch succeeds.
RmFinish_PrintsMain ==
    /\ pc = "remove"
    /\ rmIdx > Len(non_current_removals)
    /\ current_removal = None
    /\ pc' = "done"
    /\ result' = RetOk
    /\ stdout' = Append(stdout, parse_all_worktrees(list_stdout).main_path)
    /\ UNCHANGED <<envVars, cmd, list_stdout, idx, target, res, planVars, rmIdx, log>>
    /\ UNCHANGED <<parseVars, pathVars>>

\* No current-worktree removal was requested: Ok(()).
RmFinish ==
    /\ pc = "remove"
    /\ rmIdx > Len(non_current_removals)
    /\ current_removal = None
    /\ pc' = "done"
    /\ result' = RetOk
    /\ UNCHANGED <<envVars, cmd, list_stdout, idx, target, res, planVars, rmIdx, log, stdout>>
    /\ UNCHANGED <<parseVars, pathVars>>

\* cmd_goto(Some(name)).
CmdGoto(name) ==
    /\ pc = "start"
    /\ cmd' = "cd"
    /\ pc' = "done"
    /\ list_stdout' = RenderAll(gitWorktrees, dirs)
    /\ target' = Some(name)
    /\ LET t == GotoTarget(name, list_stdout') IN
       IF t # None
       THEN /\ stdout' = Append(stdout, display_path(t[1]))
            /\ result' = RetOk
       ELSE /\ result' = RetErr([msg |-> MsgNotFound, arg |-> name])
            /\ UNCHANGED stdout
    /\ UNCHANGED <<envVars, idx, res, planVars, rmIdx, log>>
    /\ UNCHANGED <<parseVars, pathVars>>

\* cmd_list with standard output piped and without --show-path.
CmdList ==
    /\ pc = "start"
    /\ cmd' = "ls"
    /\ pc' = "done"
    /\ list_stdout' = RenderAll(gitWorktrees, dirs)
    /\ stdout' = stdout \o ListLines(list_stdout')
    /\ result' = RetOk
    /\ UNCHANGED <<envVars, idx, target, res, planVars, rmIdx, log>>
    /\ UNCHANGED <<parseVars, pathVars>>

Next ==
    \/ RmStart
    \/ \E t \in Tokens : RmResolve(t)
    \/ RmResolved
    \/ RmRemoveNext
    \/ RmRemoveCurrent
    \/ RmFinish
    \/ \E t \in Tokens : CmdGoto(t)
    \/ CmdList

Spec == Init /\ [][Next]_vars

\* ------------------------------------------------------ the parsers alone
\* Porcelain texts of up to MaxLines lines.  Two worktree paths (one that
\* exists, one that does not), a hash longer and one shorter than HashChars,
\* a branch under refs/heads/ and a ref outside it, and lines the parsers
\* ignore.
MissingPath == Abs(<<"lnk", "fix">>)

LineAlphabet ==
    { Line("worktree", MainPath), Line("worktree", MissingPath),
      Line("HEAD", Rel(<<"0123456789abcdef">>)), Line("HEAD", Rel(<<"fedcba9">>)),
      Line("branch", Rel(<<"refs", "heads", "feat">>)),
      Line("branch", Rel(<<"refs", "remotes", "origin", "fix">>)),
      Line("detached", EmptyString), Line("prunable", EmptyString), BlankLine }

Texts == UNION { [1..n -> LineAlphabet] : n \in 0..MaxLines }

ActivePaths == { None, Some(MissingPath) }

InitParse ==
    /\ gitWorktrees = <<MainEntry>>
    /\ dirs = BaseDirs
    /\ cwd = MainPath.comps
    /\ CmdIdle
    /\ PathIdle
    /\ text \in Texts
    /\ active = None
    /\ entries = None
    /\ simple = None
    /\ branches = None

\* A call parse_worktree_entries(text, active_path).
ParseEntries(active_path) ==
    /\ entries = None
    /\ entries' = Some(parse_worktree_entries(text, active_path, cwd, dirs))
    /\ active' = active_path
    /\ UNCHANGED <<cmdVars, pathVars, text, simple, branches>>

\* A call parse_simple_worktree_entries(text).
ParseSimple ==
    /\ simple = None
    /\ simple' = Some(parse_simple_worktree_entries(text))
    /\ UNCHANGED <<cmdVars, pathVars, text, active, entries, branches>>

\* A call parse_worktree_list(text).
ParseList ==
    /\ branches = None
    /\ branches' = Some(parse_worktree_list(text))
    /\ UNCHANGED <<cmdVars, pathVars, text, active, entries, simple>>

NextParse ==
    \/ \E ap \in ActivePaths : ParseEntries(ap)
    \/ ParseSimple
    \/ ParseList

SpecParse == InitParse /\ [][NextParse]_vars

\* ----------------------------------------------- the path functions alone
\* Paths of up to MaxComps components, absolute and relative; directory
\* trees in which /r/wt/x exists down to a given depth (the link /lnk -> /r/wt
\* dangles when /r/wt is missing); the current directory is an existing
\* directory, or cannot be read.
CompAlphabet == {"r", "wt", "lnk", "x", ".", ".."}

Paths ==
    { [abs |-> a, comps |-> c] :
        a \in BOOLEAN, c \in UNION { [1..n -> CompAlphabet] : n \in 0..MaxComps } }

DirChains ==
    { { SubSeq(<<"r", "wt", "x">>, 1, k) : k \in 0..n } : n \in 0..3 }

CurrentDirs(ds) == {None} \cup { Some(d) : d \in ds }

InitPath ==
    /\ gitWorktrees = <<MainEntry>>
    /\ dirs = BaseDirs
    /\ cwd = MainPath.comps
    /\ CmdIdle
    /\ ParseIdle
    /\ arg \in Paths
    /\ call = NoCall
    /\ ret = None

\* A call normalize_path_lexically(arg).
Normalize ==
    /\ call = NoCall
    /\ call' = [fn |-> "normalize_path_lexically", current_dir |-> None, ds |-> {}]
    /\ ret' = Some(normalize_path_lexically(arg))
    /\ UNCHANGED <<cmdVars, parseVars, arg>>

\* A call canonicalize_allow_missing(arg) in a process whose current
\* directory is current_dir, on a disk with the directories ds.
Canonicalize(current_dir, ds) ==
    /\ call = NoCall
    /\ call' = [fn |-> "canonicalize_allow_missing", current_dir |-> current_dir, ds |-> ds]
    /\ ret' = Some(canonicalize_allow_missing_from(arg, current_dir, ds))
    /\ UNCHANGED <<cmdVars, parseVars, arg>>

NextPath ==
    \/ Normalize
    \/ \E ds \in DirChains : \E cd \in CurrentDirs(ds) : Canonicalize(cd, ds)

SpecPath == InitPath /\ [][NextPath]_vars

\* ------------------------------------------------ the root deriver alone
\* Worktree paths: siblings, a worktree inside another one, directories
\* whose names share a string prefix, a path on another branch of the tree,
\* the root directory, and relative paths.
RootPaths ==
    { Abs(<<"a", "b">>), Abs(<<"a", "b", "x">>), Abs(<<"a", "b", "y", "z">>),
      Abs(<<"a", "bc">>), Abs(<<"c", "x">>), Abs(<<>>),
      Rel(<<"a">>), Rel(<<"a", "b">>) }

PathLists == UNION { [1..n -> RootPaths] : n \in 0..MaxPaths }

InitRoot ==
    /\ gitWorktrees = <<MainEntry>>
    /\ dirs = BaseDirs
    /\ cwd = MainPath.comps
    /\ CmdIdle
    /\ ParseIdle
    /\ arg \in PathLists
    /\ call = NoCall
    /\ ret = None

\* A call calculate_worktree_root_from_paths(arg).
CalcRoot ==
    /\ call = NoCall
    /\ call' = [fn |-> "calculate_worktree_root_from_paths",
                current_dir |-> None, ds |-> {}]
    /\ ret' = Some(calculate_worktree_root_from_paths(arg))
    /\ UNCHANGED <<cmdVars, parseVars, arg>>

\* A call calculate_relative_path(arg[1], arg[2]).
CalcRelative ==
    /\ call = NoCall
    /\ Len(arg) = 2
    /\ call' = [fn |-> "calculate_relative_path", current_dir |-> None, ds |-> {}]
    /\ ret' = Some(calculate_relative_path(arg[1], arg[2]))
    /\ UNCHANGED <<cmdVars, parseVars, arg>>

\* The relative paths shown for the non-main worktrees at the paths arg.
ListRelative ==
    /\ call = NoCall
    /\ call' = [fn |-> "format_worktree_table", current_dir |-> None, ds |-> {}]
    /\ ret' = Some(RelativePaths(arg))
    /\ UNCHANGED <<cmdVars, parseVars, arg>>

NextRoot ==
    \/ CalcRoot
    \/ CalcRelative
    \/ ListRelative

SpecRoot == InitRoot /\ [][NextRoot]_vars

\* ================================================================ claims
\* While a token's resolution is on record (res # None) no removal has run,
\* so git's registered worktrees are exactly the entries of the snapshot.
Resolving == cmd = "rm" /\ res # None /\ target # None
Tok == target[1]
Res == res[1]
NonMain == 2..Len(gitWorktrees)
MainDir == EntryDir(gitWorktrees[1])
TokDir == PhysicalPath(Tok, cwd)

BranchHits == { i \in NonMain : gitWorktrees[i].branch = Some(Tok) }
PathHits == { i \in NonMain : EntryDir(gitWorktrees[i]) = TokDir }
First(S) == CHOOSE i \in S : \A j \in S : i <= j

FailsWith(m) == ~Res.ok /\ Res.err.msg = m

Planned ==
    { non_current_removals[i] : i \in DOMAIN non_current_removals }
    \cup { current_removal[i] : i \in DOMAIN current_removal }

\* C1: when a token of the batch fails to resolve, cmd_rm_many returns that
\* error and no removal step (delete hook, git worktree remove, git branch -D)
\* has been executed for any token, the earlier ones included.
C1_ResolveFailureRemovesNothing ==
    (Resolving /\ ~Res.ok) =>
        /\ pc = "done"
        /\ result = RetErr(Res.err)
        /\ log = <<>>
        /\ gitWorktrees = <<MainEntry>> \o parse_all_worktrees(list_stdout).worktrees

C1_Witness ==
    /\ Resolving /\ FailsWith(MsgNotFound)
    /\ idx >= 2
    /\ non_current_removals # <<>>
    /\ pc = "done"

\* C2: a token equal to the branch name of the main worktree fails with
\* "Cannot remove main worktree", not with "Worktree not found".
C2_MainBranchIsRefusedAsMain ==
    (Resolving /\ gitWorktrees[1].branch = Some(Tok)) => FailsWith(MsgMain)

\* C3: the token "@" always fails with "Cannot remove main worktree", and so
\* does any token that matches no non-main branch and whose path is the main
\* worktree's path.
C3_MainMarkerAndMainPathRefused ==
    (Resolving /\ (Tok = AT \/ (BranchHits = {} /\ TokDir = MainDir))) => FailsWith(MsgMain)

C3_Witness ==
    /\ Resolving /\ Tok \notin {AT, DOT}
    /\ BranchHits = {} /\ TokDir = MainDir
    /\ FailsWith(MsgMain)

\* C4 (as stated): the main worktree is never scheduled for removal by rm
\* and its path is never the navigation result of cd.
RmNeverPlansMain ==
    \A e \in Planned :
        /\ e.canonical_path # MainDir
        /\ PhysicalPath(e.worktree_path, cwd) # MainDir

CdPrintsMain == cmd = "cd" /\ stdout = <<display_path(gitWorktrees[1].path)>>

C4_MainNeverATarget == RmNeverPlansMain /\ ~CdPrintsMain

\* C4 (amended): rm never schedules the main worktree for removal; cd prints
\* the main worktree's path exactly for the token "@" and for the main
\* worktree's branch name.
C4_MainNeverRemoved ==
    /\ RmNeverPlansMain
    /\ \A k \in DOMAIN log :
          log[k].op \in {"hook", "remove"} => PhysicalPath(log[k].target, cwd) # MainDir
    /\ (cmd = "cd" /\ target # None) =>
          (CdPrintsMain <=> (Tok = AT \/ gitWorktrees[1].branch = Some(Tok)))

C4_Witness ==
    /\ Resolving /\ TokDir = MainDir /\ Tok # AT
    /\ non_current_removals # <<>>
    /\ FailsWith(MsgMain)

\* C5: a token other than "." and "@" that is the branch of a non-main entry
\* resolves to the first such entry: git's path for it, branch Some(token),
\* is_current_worktree = false, also when the process is inside that worktree.
C5_BranchMatch ==
    (Resolving /\ Tok \notin {DOT, AT} /\ BranchHits # {}) =>
        /\ Res.ok
        /\ Res.worktree_path = gitWorktrees[First(BranchHits)].path
        /\ Res.canonical_path = EntryDir(gitWorktrees[First(BranchHits)])
        /\ Res.branch_name = Some(Tok)
        /\ Res.is_current = FALSE

C5_Witness ==
    /\ Resolving /\ Tok \notin {DOT, AT} /\ Cardinality(BranchHits) = 2
    /\ TopLevel(cwd, gitWorktrees) = Some(Abs(EntryDir(gitWorktrees[First(BranchHits)])))
    /\ Res.ok /\ ~Res.is_current

\* C6: the branch match wins over the path match: a token that is the branch
\* of non-main worktree A and, as a path, is another worktree B or the main
\* worktree, resolves to A.
C6_BranchBeforePath ==
    (Resolving /\ Tok \notin {DOT, AT} /\ BranchHits # {}
       /\ (TokDir = MainDir \/ (PathHits # {} /\ PathHits # {First(BranchHits)}))) =>
        /\ Res.ok
        /\ Res.worktree_path = gitWorktrees[First(BranchHits)].path
        /\ Res.canonical_path # TokDir

C6_Witness ==
    /\ Resolving /\ Tok \notin {DOT, AT} /\ BranchHits # {}
    /\ PathHits # {} /\ First(PathHits) # First(BranchHits)
    /\ Res.ok /\ Res.worktree_path = gitWorktrees[First(BranchHits)].path

\* C7: a token that matches no non-main branch and whose path (relative to
\* the current directory, "." and ".." resolved, the directory possibly
\* deleted) is the path of a non-main entry resolves to that entry: git's
\* path for it, its branch (None when detached), is_current_worktree = false.
C7_PathMatch ==
    (Resolving /\ Tok \notin {DOT, AT} /\ BranchHits = {} /\ PathHits # {}) =>
        /\ Res.ok
        /\ Res.worktree_path = gitWorktrees[First(PathHits)].path
        /\ Res.branch_name = gitWorktrees[First(PathHits)].branch
        /\ Res.canonical_path = TokDir
        /\ Res.is_current = FALSE

C7_Witness ==
    /\ Resolving /\ Tok \notin {DOT, AT} /\ BranchHits = {} /\ PathHits # {}
    /\ TokDir \notin dirs
    /\ Tok # gitWorktrees[First(PathHits)].path
    /\ Res.ok /\ Res.worktree_path = gitWorktrees[First(PathHits)].path

\* C8: a token other than "." and "@" that matches no non-main branch and
\* whose path is neither the main worktree nor a non-main entry fails with
\* "Worktree not found: <token>", the token as the user gave it.
C8_NotFoundEchoesToken ==
    (Resolving /\ Tok \notin {DOT, AT} /\ BranchHits = {} /\ PathHits = {}
       /\ TokDir # MainDir) =>
        /\ FailsWith(MsgNotFound)
        /\ Res.err.arg = Tok

C8_Witness ==
    /\ Resolving /\ Tok = Rel(<<"..">>)
    /\ FailsWith(MsgNotFound) /\ Res.err.arg = Tok

\* C9: "." resolves through git's top-level directory of the current
\* directory: the main worktree is refused, any other succeeds with
\* is_current_worktree = true, that directory's canonical path and the branch
\* of the non-main entry at that path.
TopDir == PhysicalPath(TopLevel(cwd, gitWorktrees)[1], cwd)
TopHits == { i \in NonMain : EntryDir(gitWorktrees[i]) = TopDir }

C9_DotIsCurrentWorktree ==
    (Resolving /\ Tok = DOT /\ TopLevel(cwd, gitWorktrees) # None) =>
        IF TopDir = MainDir
        THEN FailsWith(MsgMain)
        ELSE /\ Res.ok
             /\ Res.is_current = TRUE
             /\ Res.canonical_path = TopDir
             /\ TopHits # {} => Res.branch_name = gitWorktrees[First(TopHits)].branch

C9_Witness ==
    /\ Resolving /\ Tok = DOT /\ cwd = SubDir
    /\ Res.ok /\ Res.is_current /\ Res.branch_name = Some(Rel(<<"feat">>))

\* C10: when every token resolves, each distinct canonical path is planned
\* and removed exactly once, one duplicate warning is written per token whose
\* path was already seen, and duplicates never make the batch fail.
PlanHasNoDuplicates ==
    /\ \A i, j \in DOMAIN non_current_removals :
          i # j => non_current_removals[i].canonical_path # non_current_removals[j].canonical_path
    /\ \A i \in DOMAIN non_current_removals :
          current_removal = None \/ current_removal[1].canonical_path # non_current_removals[i].canonical_path

RemovedOk == { k \in DOMAIN log : log[k].op = "remove" /\ log[k].ok }
RemoveTried(d) == { k \in DOMAIN log : log[k].op = "remove" /\ PhysicalPath(log[k].target, cwd) = d }

C10_DuplicatesRemovedOnce ==
    (cmd = "rm" /\ (res = None \/ Res.ok)) =>
        /\ warnings = idx - Cardinality(resolved)
        /\ { e.canonical_path : e \in Planned } = resolved
        /\ PlanHasNoDuplicates
        /\ \A d \in resolved : Cardinality(RemoveTried(d)) <= 1
        /\ result.status = "ok" =>
              \A d \in resolved : Cardinality(RemoveTried(d) \cap RemovedOk) = 1
        /\ result.status = "err" =>
              (log # <<>> /\ ~log[Len(log)].ok /\ log[Len(log)].op \in {"hook", "remove"})

C10_Witness ==
    /\ cmd = "rm" /\ pc = "done" /\ result.status = "ok"
    /\ warnings = 2 /\ idx = 3
    /\ Cardinality(RemovedOk) = 1

\* ------------------------------------------------ the removal plan (rm)
QueuePaths == { non_current_removals[i].canonical_path : i \in DOMAIN non_current_removals }
CurDir == PhysicalPath(current_removal[1].worktree_path, cwd)
IsRemoveOp(l) == l.op = "remove"
RemoveTargets == LET r == SelectSeq(log, IsRemoveOp) IN [k \in DOMAIN r |-> r[k].target]

\* The step of the resolution loop in which "." resolves to a canonical path
\* that an earlier token queued: the entry leaves the queue (the rest keeps
\* its order) and becomes the current removal.
C11_DotCollisionStep ==
    (/\ pc = "resolve" /\ idx' = idx + 1
     /\ target' = Some(DOT) /\ res' # None /\ res'[1].ok
     /\ res'[1].canonical_path \in QueuePaths)
    => /\ non_current_removals' = Retain(non_current_removals, res'[1].canonical_path)
       /\ Len(non_current_removals') = Len(non_current_removals) - 1
       /\ res'[1].canonical_path \notin QueuePaths'
       /\ current_removal' # None
       /\ current_removal'[1].canonical_path = res'[1].canonical_path

\* The worktree that holds the current slot is never removed from the
\* queue: git removes it at most once, after the queue is exhausted, as the
\* last removal of the run, and exactly once when the run succeeds.
C11_CurrentRemovedOnceAsCurrent ==
    (cmd = "rm" /\ current_removal # None)
    => /\ current_removal[1].canonical_path \notin QueuePaths
       /\ Cardinality(RemoveTried(CurDir)) <= 1
       /\ \A k \in RemoveTried(CurDir) :
             /\ pc = "done"
             /\ rmIdx > Len(non_current_removals)
             /\ \A j \in DOMAIN log : j > k => log[j].op # "remove"
       /\ (pc = "done" /\ result.status = "ok") => Cardinality(RemoveTried(CurDir)) = 1

\* C11: when "." resolves to a canonical path that an earlier token already
\* queued as non-current, the entry is taken out of the queue and becomes the
\* current removal; the worktree is removed exactly once, as the current one.
C11_DotTakesOverQueuedEntry ==
    [][C11_DotCollisionStep]_vars /\ []C11_CurrentRemovedOnceAsCurrent

\* The second token is "." and collides with what the first token queued.
C11_Witness ==
    /\ Resolving /\ idx = 2 /\ Tok = DOT /\ Res.ok
    /\ warnings = 1
    /\ current_removal # None
    /\ non_current_removals = <<>>
    /\ first_seen = <<Res.canonical_path>>

\* The canonical paths of the queue, in queue order, and the worktree paths
\* of the whole plan in the order the claim gives: queue first, current last.
QueueOrder == [i \in DOMAIN non_current_removals |-> non_current_removals[i].canonical_path]
IsQueued(p) == p \in QueuePaths
PlanTargets ==
    [i \in DOMAIN non_current_removals |-> non_current_removals[i].worktree_path]
    \o (IF current_removal = None THEN <<>> ELSE <<current_removal[1].worktree_path>>)

\* C12: the non-current removals are executed in the order of their first
\* occurrence in the input, and the current worktree's removal comes after
\* all of them, wherever "." stood in the input.
C12_RemovalOrder ==
    cmd = "rm"
    => /\ QueueOrder = SelectSeq(first_seen, IsQueued)
       /\ Len(RemoveTargets) <= Len(PlanTargets)
       /\ RemoveTargets = SubSeq(PlanTargets, 1, Len(RemoveTargets))

\* "." (or an alias of it) came first in the input, another worktree after
\* it, and both were removed: the other one first.
C12_Witness ==
    /\ cmd = "rm" /\ pc = "done" /\ result.status = "ok"
    /\ current_removal # None
    /\ Len(non_current_removals) >= 1
    /\ first_seen[1] = current_removal[1].canonical_path
    /\ Len(RemoveTargets) = Len(non_current_removals) + 1
    /\ RemoveTargets[Len(RemoveTargets)] = current_removal[1].worktree_path

\* While tokens are being resolved nothing has been removed: the snapshot
\* still describes git's worktrees.
C13_ResolveBeforeRemove ==
    (cmd = "rm" /\ pc = "resolve")
    => /\ log = <<>>
       /\ list_stdout = RenderAll(gitWorktrees, dirs)

\* The snapshot is never read again, and once a removal step has run no
\* token is resolved and the plan does not change.
C13_SnapshotStep ==
    /\ cmd = "rm" => list_stdout' = list_stdout
    /\ log # <<>> => UNCHANGED <<idx, planVars>>
    /\ log' # log => (pc = "remove" /\ res = None)

\* C13: the porcelain list is read exactly once, before any removal; every
\* token is resolved against that snapshot, and all tokens are resolved
\* before the first removal starts.
C13_OneSnapshotResolvedFirst ==
    []C13_ResolveBeforeRemove /\ [][C13_SnapshotStep]_vars

\* Two tokens were resolved, then a removal changed git's worktrees: the
\* snapshot the tokens were resolved against is now out of date.
C13_Witness ==
    /\ cmd = "rm" /\ pc = "done" /\ result.status = "ok"
    /\ Cardinality(resolved) = 2
    /\ Cardinality(RemovedOk) = 2
    /\ list_stdout # RenderAll(gitWorktrees, dirs)

\* C14: rm writes the main worktree's path (the first entry of the
\* snapshot) to standard output exactly when a current-worktree removal was
\* requested and every removal succeeded, and writes it after the current
\* worktree's removal; otherwise it writes nothing.
C14_MainPathPrinted ==
    cmd = "rm"
    => /\ stdout = (IF pc = "done" /\ result.status = "ok" /\ current_removal # None
                    THEN <<list_stdout[1].val>> ELSE <<>>)
       /\ stdout # <<>>
          => /\ Len(RemoveTargets) = Len(PlanTargets)
             /\ RemoveTargets[Len(RemoveTargets)] = current_removal[1].worktree_path
             /\ \A k \in DOMAIN log : log[k].op = "remove" => log[k].ok

\* A batch with "." and another target succeeded and printed the main path.
C14_Witness ==
    /\ cmd = "rm" /\ pc = "done" /\ result.status = "ok"
    /\ current_removal # None
    /\ Len(non_current_removals) >= 1
    /\ stdout = <<MainPath>>
    /\ Cardinality(RemovedOk) = 2

\* ------------------------------------------------------- the parsers
\* The blocks of a text, read off the text itself: block n starts at the
\* n-th `worktree` line and ends before the next `worktree` line or blank
\* line, or at the end of the text.
WtLines(t) == { i \in DOMAIN t : t[i].key = "worktree" }
NthWt(t, n) == CHOOSE i \in WtLines(t) : Cardinality({ j \in WtLines(t) : j < i }) = n - 1
BlockEnd(t, i) ==
    LET stops == { j \in DOMAIN t : j > i /\ t[j].key \in {"worktree", ""} }
    IN IF stops = {} THEN Len(t) + 1 ELSE CHOOSE j \in stops : \A k \in stops : j <= k
BlockLines(t, i, key) == { j \in DOMAIN t : i < j /\ j < BlockEnd(t, i) /\ t[j].key = key }
Last(S) == CHOOSE i \in S : \A j \in S : j <= i

Parsed == entries[1]

\* C15: for a text of N blocks that each start with a `worktree` line,
\* parse_worktree_entries returns exactly N entries, in the order of the
\* blocks, whether the last block ends with a blank line or at the end of
\* the input; an empty input gives an empty list.
C15_OneEntryPerBlock ==
    entries # None
    => /\ Len(Parsed) = Cardinality(WtLines(text))
       /\ \A n \in DOMAIN Parsed : Parsed[n].path = text[NthWt(text, n)].val

\* Two blocks, the second one ended by the end of the input.
C15_Witness ==
    /\ entries # None
    /\ Len(text) = MaxLines
    /\ text[1].key = "worktree"
    /\ text[Len(text)].key \notin {"", "worktree"}
    /\ Len(Parsed) = 2
    /\ Parsed[1].path # Parsed[2].path

\* What the claim says entry n holds, read off block n of the text alone.
IsFirstChars(h, v, n) ==
    IF v.comps = <<>> THEN h = v
    ELSE /\ ~h.abs /\ Len(h.comps) = 1
         /\ Len(h.comps[1]) = (IF Len(v.comps[1]) < n THEN Len(v.comps[1]) ELSE n)
         /\ SubSeq(v.comps[1], 1, Len(h.comps[1])) = h.comps[1]

HashFromBlock(h, t, i) ==
    LET hs == BlockLines(t, i, "HEAD")
    IN IF hs = {} THEN h = Rel(<<"(unknown)">>) ELSE IsFirstChars(h, t[Last(hs)].val, 8)

BranchFromBlock(b, t, i) ==
    LET bs == BlockLines(t, i, "branch")
    IN IF bs = {} THEN b = None
       ELSE LET ref == t[Last(bs)].val.comps
            IN b = Some(Rel(IF Len(ref) >= 3 /\ SubSeq(ref, 1, 2) = <<"refs", "heads">>
                            THEN SubSeq(ref, 3, Len(ref)) ELSE ref))

\* C16: every entry takes its hash and branch from its own block only: the
\* hash is the first 8 characters of the block's HEAD value, or "(unknown)"
\* without a HEAD line; the branch is the block's ref with refs/heads/
\* stripped (any other ref verbatim), or absent without a branch line.
\* Nothing is carried over from a neighbouring block.
C16_FieldsFromOwnBlock ==
    entries # None
    => \A n \in DOMAIN Parsed :
          /\ HashFromBlock(Parsed[n].hash, text, NthWt(text, n))
          /\ BranchFromBlock(Parsed[n].branch, text, NthWt(text, n))

\* A block with a long HEAD value and a branch, directly followed by a block
\* with neither.
C16_Witness ==
    /\ entries # None
    /\ Len(Parsed) = 2
    /\ text[2] = Line("HEAD", Rel(<<"0123456789abcdef">>))
    /\ Parsed[1].hash = Rel(<<"01234567">>)
    /\ Parsed[1].branch = Some(Rel(<<"feat">>))
    /\ Parsed[2].hash = Rel(<<"(unknown)">>)
    /\ Parsed[2].branch = None

\* Exchanging two neighbouring lines of a text.  Every reordering of the
\* HEAD, branch and detached lines of a block (one of each at most) is a
\* chain of exchanges of two neighbouring lines of different kinds.
Swap(t, j) == [t EXCEPT ![j] = t[j + 1], ![j + 1] = t[j]]
InnerKinds == {"HEAD", "branch", "detached"}
Swappable(t) ==
    { j \in 1..(Len(t) - 1) :
        /\ t[j].key \in InnerKinds /\ t[j + 1].key \in InnerKinds
        /\ t[j].key # t[j + 1].key }

\* C17: the order of the HEAD, branch and detached lines inside a block does
\* not matter: reordering them leaves the result of parse_worktree_entries
\* unchanged.
C17_InnerLineOrderIrrelevant ==
    entries # None
    => \A j \in Swappable(text) :
          parse_worktree_entries(Swap(text, j), active, cwd, dirs) = Parsed

\* A block whose lines come in the reverse of git's order: detached, branch,
\* HEAD; both fields were still read.
C17_Witness ==
    /\ entries # None
    /\ Len(text) = 4
    /\ text[1].key = "worktree"
    /\ text[2].key = "detached" /\ text[3].key = "branch" /\ text[4].key = "HEAD"
    /\ Swappable(text) = {2, 3}
    /\ Len(Parsed) = 1
    /\ Parsed[1].branch # None
    /\ Parsed[1].hash # Rel(<<"(unknown)">>)

\* C18: for every text, parse_simple_worktree_entries returns the same
\* sequence of (path, branch) pairs as parse_worktree_entries.
C18_SimpleAgreesWithFull ==
    (entries # None /\ simple # None)
    => simple[1] = [n \in DOMAIN Parsed |-> [path |-> Parsed[n].path,
                                             branch |-> Parsed[n].branch]]

\* Both parsers ran on a text with two blocks, a HEAD line (which only the
\* full parser reads) and a branch under refs/heads/.
C18_Witness ==
    /\ entries # None /\ simple # None
    /\ Len(simple[1]) = 2
    /\ \E j \in DOMAIN text : text[j].key = "HEAD"
    /\ \E n \in DOMAIN Parsed : Parsed[n].branch = Some(Rel(<<"feat">>))

\* ------------------------------------------------- the path functions
Returned == ret[1]

\* C19: normalize_path_lexically is idempotent and its result contains no
\* "." and no ".." component, for absolute and relative paths, also with
\* leading ".." components.
C19_NormalizeIdempotentNoDots ==
    call.fn = "normalize_path_lexically"
    => /\ normalize_path_lexically(Returned) = Returned
       /\ \A i \in DOMAIN Returned.comps : Returned.comps[i] \notin {".", ".."}
       /\ Returned.abs = arg.abs

\* A relative path with a leading "..", a "." and a name that survives.
C19_Witness ==
    /\ call.fn = "normalize_path_lexically"
    /\ ~arg.abs
    /\ Len(arg.comps) = MaxComps
    /\ arg.comps[1] = ".."
    /\ \E i \in DOMAIN arg.comps : arg.comps[i] = "."
    /\ Returned.comps # <<>>

\* The call is canonicalize_allow_missing and its argument can be made
\* absolute (it is absolute, or the current directory can be read).
Canonicalizing == call.fn = "canonicalize_allow_missing"
HasBase == arg.abs \/ call.current_dir # None

\* The lexically normalised absolute form of the argument.
NormAbs ==
    LexNormFrom(<<>>, IF arg.abs THEN arg.comps ELSE call.current_dir[1] \o arg.comps)

\* The argument names nothing that exists.
ArgMissing == HasBase => ~PathExists(NormAbs, call.ds)

\* The lengths of the proper prefixes of NormAbs that exist, and the result
\* the claim describes: the canonical form of the longest of them followed
\* by the rest of NormAbs.
ExistingAncestors ==
    { k \in 0..(Len(NormAbs) - 1) : PathExists(SubSeq(NormAbs, 1, k), call.ds) }

AncestorPlusRest ==
    LET k == CHOOSE a \in ExistingAncestors : \A b \in ExistingAncestors : b <= a
    IN RealCanon(SubSeq(NormAbs, 1, k), call.ds)[1] \o SubSeq(NormAbs, k + 1, Len(NormAbs))

RawAbs == IF arg.abs THEN arg.comps ELSE call.current_dir[1] \o arg.comps

\* C21: for every path that exists, canonicalize_allow_missing returns what
\* real filesystem canonicalisation of the same input returns, also when
\* the input has ".." components after a symbolic link.
C21_ExistingPathIsRealCanonical ==
    (Canonicalizing /\ HasBase /\ PathExists(RawAbs, call.ds))
    => Returned = Abs(RealCanon(RawAbs, call.ds)[1])

\* ------------------------------------------------- the worktree root
CalledRoot == call.fn = "calculate_worktree_root_from_paths"

\* All paths of arg have the same first k components.
SharedBy(k) ==
    \A i \in 1..Len(arg) :
        /\ k <= Len(Components(arg[i]))
        /\ SubSeq(Components(arg[i]), 1, k) = SubSeq(Components(arg[1]), 1, k)

\* C22: calculate_worktree_root_from_paths returns None for no path, the
\* parent directory for exactly one path, and for two or more paths the
\* longest component-wise prefix shared by all of them, in whatever order
\* they are given, or None when they share no leading component.
C22_RootIsLongestSharedPrefix ==
    CalledRoot =>
        /\ Len(arg) = 0 => Returned = None
        /\ Len(arg) = 1 =>
             Returned = IF arg[1].comps = <<>> THEN None
                        ELSE Some([abs |-> arg[1].abs,
                                   comps |-> SubSeq(arg[1].comps, 1,
                                                    Len(arg[1].comps) - 1)])
        /\ Len(arg) >= 2 =>
             /\ Returned = None <=> ~SharedBy(1)
             /\ Returned # None =>
                  \E k \in 1..(MaxComps + 2) :
                      /\ SharedBy(k)
                      /\ ~SharedBy(k + 1)
                      /\ Components(Returned[1])
                           = SubSeq(Components(arg[1]), 1, k)
                      /\ \A i \in 1..Len(arg) :
                             \A j \in 1..Len(arg) :
                                 Returned = calculate_worktree_root_from_paths(
                                     [arg EXCEPT ![i] = arg[j], ![j] = arg[i]])

\* The third path is the one that narrows the prefix.
C22_Witness ==
    /\ CalledRoot
    /\ arg = <<Abs(<<"a", "b", "x">>), Abs(<<"a", "b", "y", "z">>), Abs(<<"a", "bc">>)>>
    /\ Returned = Some(Abs(<<"a">>))

CalledRelative == call.fn = "calculate_relative_path"

\* Path::join: an absolute right-hand side replaces the left-hand one.
Joined(base, rest) ==
    IF rest.abs THEN rest
    ELSE [abs |-> base.abs, comps |-> base.comps \o rest.comps]

\* C23: calculate_relative_path(worktree_path, root) is None unless root is
\* a component-wise prefix of worktree_path (/a/b is no prefix of /a/bc);
\* otherwise it is the remaining components, so that root joined with the
\* result is worktree_path again.
C23_RelativeIsComponentWise ==
    CalledRelative =>
        LET w == Components(arg[1])
            r == Components(arg[2])
        IN IF Len(r) <= Len(w) /\ (\A i \in 1..Len(r) : r[i] = w[i])
           THEN /\ Returned # None
                /\ Components(Returned[1]) = SubSeq(w, Len(r) + 1, Len(w))
                /\ Joined(arg[2], Returned[1]) = arg[1]
           ELSE Returned = None

\* The root /a/b is a string prefix of /a/bc, but no component prefix.
C23_Witness ==
    /\ CalledRelative
    /\ arg = <<Abs(<<"a", "bc">>), Abs(<<"a", "b">>)>>
    /\ Returned = None

CalledTable == call.fn = "format_worktree_table"

\* Two or more worktree paths as git reports them: absolute and distinct.
DistinctWorktreePaths ==
    /\ Len(arg) >= 2
    /\ \A i \in 1..Len(arg) : arg[i].abs /\ arg[i].comps # <<>>
    /\ \A i \in 1..Len(arg) : \A j \in 1..Len(arg) : i # j => arg[i] # arg[j]

\* C30: for two or more distinct non-main worktree paths the derived root
\* is a proper ancestor of every one of them, so every non-main worktree has
\* a relative path that is defined and not empty, also when one worktree
\* lies inside another.
C30_RelativePathNeverEmpty ==
    (CalledTable /\ DistinctWorktreePaths) =>
        \A i \in 1..Len(arg) :
            /\ Returned[i] # None
            /\ Returned[i][1] # EmptyString

\* ------------------------------------------------------ the listing (ls)
\* The worktree a line of the listing stands for: lines and snapshot
\* entries are in the same order.
Listed(i) == gitWorktrees[i]

\* `cd line` prints the path of worktree e.
CdReaches(line, e) ==
    LET t == GotoTarget(line, list_stdout)
    IN t # None /\ display_path(t[1]) = display_path(e.path)

\* `rm line` resolves to worktree e.
RmReaches(line, e) ==
    LET r == resolve_worktree_target(line, list_stdout, cwd,
                                     TopLevel(cwd, gitWorktrees), dirs)
    IN r.ok /\ PhysicalPath(r.worktree_path, cwd) = EntryDir(e)

\* C24: every line ls prints in pipe mode without --show-path for a
\* non-main worktree, its branch name or its path when it is detached, is
\* accepted by cd and by rm: cd prints that worktree's path and rm resolves
\* to that same worktree.
C24_ListedLinesActionable ==
    (cmd = "ls" /\ pc = "done") =>
        \A i \in 2..Len(stdout) :
            /\ CdReaches(stdout[i], Listed(i))
            /\ RmReaches(stdout[i], Listed(i))

\* ------------------------------------------- branch names (completion)
\* Every line that is neither a worktree line nor blank follows a line of
\* its own block: the blocks of text each start with a worktree line.
BlocksStartWithWorktree ==
    \A i \in 1..Len(text) :
        text[i].key \notin {"worktree", ""} => (i > 1 /\ text[i - 1].key # "")

\* The branch names of the blocks of text after the first, in order.
RECURSIVE BranchesOf(_)
BranchesOf(es) ==
    IF es = <<>> THEN <<>>
    ELSE (IF Head(es).branch = None THEN <<>> ELSE <<Head(es).branch[1]>>)
         \o BranchesOf(Tail(es))

NonMainBranches ==
    LET es == parse_simple_worktree_entries(text)
    IN IF es = <<>> THEN <<>> ELSE BranchesOf(Tail(es))

\* C25: for a porcelain text whose blocks each start with a worktree line,
\* parse_worktree_list returns, in input order, exactly the branch names of
\* the worktrees after the first; the branch of the first (main) worktree
\* is never among them.
C25_ListIsNonMainBranches ==
    (branches # None /\ BlocksStartWithWorktree) => branches[1] = NonMainBranches

\* ------------------------------------------------- the resolver's result
Snapshot == parse_all_worktrees(list_stdout)
SnapshotCanonical(path) == canonicalize_allow_missing(path, cwd, dirs)

C27_PlanInvariant ==
    cmd = "rm" =>
        /\ Cardinality(QueuePaths) = Len(non_current_removals)
        /\ current_removal # None =>
              /\ current_removal[1].canonical_path \notin QueuePaths
              /\ current_removal[1].canonical_path \in seen_paths
        /\ QueuePaths \subseteq seen_paths

\* Three tokens: one queued, "." in another worktree, and a duplicate.
C27_Witness ==
    /\ cmd = "rm" /\ idx = 3 /\ warnings = 1
    /\ Len(non_current_removals) = 1
    /\ current_removal # None
    /\ seen_paths = QueuePaths \cup {current_removal[1].canonical_path}

\* ------------------------------------------------- a removal that fails
\* Steps of the log at which a removal failed: git branch -D never does.
FailedAt == { k \in DOMAIN log : log[k].op \in {"hook", "remove"} /\ ~log[k].ok }

LogTargets == { log[k].target : k \in DOMAIN log }

\* The worktree removed at step k of the log is gone from git and from disk.
StaysRemoved(k) ==
    LET d == PhysicalPath(log[k].target, MainPath.comps)
    IN /\ d \notin dirs
       /\ \A i \in DOMAIN gitWorktrees : EntryDir(gitWorktrees[i]) # d

\* C28: when a removal of the batch fails, by its delete hook or by git
\* worktree remove, cmd_rm_many returns that error at once: no later queued
\* removal is attempted, the current worktree is not removed, the main path
\* is not printed, and the removals already completed are not undone.
C28_FailureStopsBatch ==
    (cmd = "rm" /\ FailedAt # {}) =>
        /\ pc = "done"
        /\ result = RetErr([msg |-> IF log[Len(log)].op = "hook"
                                    THEN "delete hook failed"
                                    ELSE "git worktree remove failed",
                            arg |-> EmptyString])
        /\ FailedAt = {Len(log)}
        /\ \A i \in (rmIdx + 1)..Len(non_current_removals) :
               non_current_removals[i].worktree_path \notin LogTargets
        /\ (rmIdx <= Len(non_current_removals) /\ current_removal # None) =>
               current_removal[1].worktree_path \notin LogTargets
        /\ stdout = <<>>
        /\ \A k \in RemovedOk : StaysRemoved(k)

\* The only queued removal fails at git worktree remove while the removal
\* of the current worktree is still to come.
C28_Witness ==
    /\ cmd = "rm" /\ pc = "done"
    /\ Len(non_current_removals) = 1 /\ rmIdx = 1
    /\ current_removal # None
    /\ FailedAt # {} /\ log[Len(log)].op = "remove"
    /\ Registered(current_removal[1], gitWorktrees)

\* ------------------------------------------------- the steps of a removal
\* The entry the running removal is for, and the steps it adds to the log.
Removing ==
    IF rmIdx <= Len(non_current_removals)
    THEN non_current_removals[rmIdx] ELSE current_removal[1]

NewSteps == SubSeq(log', Len(log) + 1, Len(log'))

StepsOf(op) == { k \in DOMAIN NewSteps : NewSteps[k].op = op }

\* One call of remove_worktree_internal: what it did in this step.
C29_RemovalStep ==
    log' # log =>
        /\ StepsOf("hook") \subseteq {1}
        /\ StepsOf("hook") # {} <=>
              (hooks /\ PhysicalPath(Removing.worktree_path, MainPath.comps) \in dirs)
        /\ \A k \in StepsOf("hook") : NewSteps[k].target = Removing.worktree_path
        /\ StepsOf("remove") = IF \E k \in StepsOf("hook") : ~NewSteps[k].ok
                               THEN {} ELSE {Cardinality(StepsOf("hook")) + 1}
        /\ \A k \in StepsOf("remove") : NewSteps[k].target = Removing.worktree_path
        /\ StepsOf("branch") =
              IF /\ Removing.branch_name # None
                 /\ \E k \in StepsOf("remove") : NewSteps[k].ok
              THEN {Len(NewSteps)} \ StepsOf("remove") ELSE {}
        /\ \A k \in StepsOf("branch") :
              /\ NewSteps[k].target = Removing.branch_name[1]
              /\ k = Cardinality(StepsOf("hook")) + 2
        /\ result'.status = "err" <=>
              \E k \in StepsOf("hook") \cup StepsOf("remove") : ~NewSteps[k].ok

\* C29: within one removal the delete hooks run first, and only when the
\* worktree directory exists and a delete hook is configured; git worktree
\* remove runs only if the hooks did not fail; git branch -D is attempted
\* only after the worktree removal succeeded and only when a branch name is
\* known; an unsuccessful branch deletion does not make the removal an error.
C29_StepsOfOneRemoval == [][C29_RemovalStep]_vars

\* Hooks ran, the worktree was removed, the branch deletion was unsuccessful
\* and the batch returned Ok.
C29_Witness ==
    /\ cmd = "rm" /\ pc = "done" /\ result = RetOk
    /\ Len(log) = 3
    /\ log[1].op = "hook" /\ log[1].ok
    /\ log[2].op = "remove" /\ log[2].ok
    /\ log[3].op = "branch" /\ ~log[3].ok

====
